---- MODULE Spec2Model ----
(***************************************************************************)
(* GetFame backend: payment webhooks driving orders to the upstream panel  *)
(* (JAP).  Two generations of the pipeline are modelled:                   *)
(*   SpecV3  the in-memory order Map of lib/orders.js with the v3.0.1 and  *)
(*           v3.0.2 webhook handlers;                                      *)
(*   SpecV5  the file-backed order list of the v5 server with its webhook  *)
(*           handlers and the manual fulfilment endpoint.                  *)
(* A handler runs to completion between awaits, so every action below is   *)
(* the code between two awaits of one request.                             *)
(***************************************************************************)
EXTENDS Integers, Sequences, FiniteSets, TLC

(***************************************************************************)
(* Bounds of the model.                                                    *)
(***************************************************************************)
NumHandlers == 2      \* requests that can be in flight at the same time
NumOrders == 2        \* checkouts made in one run
MaxDeliveries == 2    \* webhook / admin requests accepted in one run
MaxClock == 2         \* last value of Date.now() in one run
MaxGen == 2           \* versions of the panel's service list in one run

(***************************************************************************)
(* Program constants.                                                      *)
(***************************************************************************)
Null == 0             \* null / undefined (japOrderId: null, no orderId)

Handlers == 1..NumHandlers
OrderIds == 1..NumOrders
Refs == 0..NumOrders          \* what a webhook names: an order, or nothing (0)
Quantities == {5000}
CheckoutQuantities == Quantities \cup {50}   \* what a checkout can ask for
ServiceIds == {7446}
Links == {"https://instagram.com/u"}

EmptyMap == [x \in {} |-> x]

VARIABLES
    version,                 \* which server of the generation is running
    STRIPE_WEBHOOK_SECRET,   \* TRUE iff the variable is set
    NOWPAYMENTS_IPN_SECRET,  \* TRUE iff the variable is set
    JAP_API_KEY,             \* TRUE iff the variable is set
    ADMIN_API_KEY,           \* v2: TRUE iff the variable is set
    orders,                  \* v3: const orders = new Map()
    ordersFile,              \* v5: contents of orders.json, newest first
    clock,                   \* v5: Date.now()
    handler,                 \* the request each handler slot is serving
    deliveries,              \* requests accepted so far
    japCalls,                \* upstream: 'add' requests received, per ref
    japNextId,               \* upstream: next order id it hands out
    japIssued,               \* upstream: ids it returned, per ref
    uuids,                   \* v3: how many ids uuidv4() has made
    sessions,                \* v2: checkout sessions made at Stripe, by id
    servicesCache,           \* lib/services.js: let servicesCache = null
    cacheTimestamp,          \* lib/services.js: let cacheTimestamp = 0
    now,                     \* lib/services.js: Date.now(), in ms
    japGen,                  \* upstream: which service list the panel has
    lastGood,                \* history: what the last fetch that succeeded gave
    lastRefresh,             \* history: when the last fetch succeeded
    lastRead,                \* history: what the latest catalog read did
    last                     \* history: what the latest request step did

vars == <<version, STRIPE_WEBHOOK_SECRET, NOWPAYMENTS_IPN_SECRET, JAP_API_KEY,
          ADMIN_API_KEY,
          orders, ordersFile, clock, handler, deliveries, japCalls, japNextId,
          japIssued, uuids, sessions, servicesCache, cacheTimestamp, now, japGen,
          lastGood, lastRefresh, lastRead, last>>

env == <<version, STRIPE_WEBHOOK_SECRET, NOWPAYMENTS_IPN_SECRET, JAP_API_KEY,
         ADMIN_API_KEY>>
stripe == <<sessions>>
catalog == <<servicesCache, cacheTimestamp, now, japGen, lastGood, lastRefresh,
            lastRead>>

(***************************************************************************)
(* The catalog cache of lib/services.js.                                   *)
(***************************************************************************)
Minute == 60 * 1000
CACHE_DURATION == 5 * 60 * 1000
\* Date.now() when the process starts: far from the epoch
Boot == CACHE_DURATION

\* A catalog value: null, a list made from the panel's answer number gen
\* with size curated services in it, the static list, or a thrown error.
NullCache == [kind |-> "null", gen |-> 0, size |-> 0]

\* History of a catalog read: whether it asked for a refresh, whether a
\* fetch had succeeded before it and how long ago, how its own fetch
\* ended, what the last successful fetch had given, and what it returned.
NoRead == [step |-> "none", force |-> FALSE, had |-> FALSE, age |-> 0,
           out |-> "none", good |-> NullCache, result |-> NullCache]

(***************************************************************************)
(* Webhook requests.  A signature is an HMAC: the key it was made with and *)
(* the bytes it was made over; two HMACs agree iff both agree.             *)
(***************************************************************************)
StripeTypes == {"checkout.session.completed", "payment_intent.payment_failed"}
IPNStatuses == {"finished", "partially_paid", "failed", "waiting"}
Fees == {1}

StripePayloads == [type : StripeTypes, ref : Refs, quantity : Quantities]
IPNPayloads == [payment_status : IPNStatuses, order_id : Refs, fee : [depositFee : Fees]]

NoSig == [key |-> "none", over |-> <<>>]
Hmac(key, bytes) == [key |-> key, over |-> bytes]

\* JSON.stringify(obj) of an object rebuilt with its top-level keys sorted:
\* every top-level key in order, nested objects whole.
SortedCanon(p) == <<"fee", <<"depositFee", p.fee.depositFee>>,
                    "order_id", p.order_id,
                    "payment_status", p.payment_status>>

\* JSON.stringify(payload, Object.keys(payload).sort()): the array is a
\* whitelist applied at every depth, so a nested key that is no top-level
\* key is dropped.
ReplacerCanon(p) == <<"fee", <<>>,
                      "order_id", p.order_id,
                      "payment_status", p.payment_status>>

\* The raw body Stripe signs.
RawBody(p) == <<"raw", p>>

OtherStatus(s) == IF s = "finished" THEN "failed" ELSE "finished"
OtherFee(f) == [depositFee |-> IF f.depositFee = 1 THEN 2 ELSE 1]
OtherType(t) == IF t = "checkout.session.completed"
                THEN "payment_intent.payment_failed"
                ELSE "checkout.session.completed"

\* The signatures a request carrying payload p may present: none, one made
\* with another key, one the provider made for p, and one the provider made
\* for an original of which p is an altered copy.
IPNSigs(p) ==
    LET alt1 == [p EXCEPT !.payment_status = OtherStatus(@)]
        alt2 == [p EXCEPT !.fee = OtherFee(@)]
    IN {NoSig, Hmac("other", SortedCanon(p))}
       \cup {Hmac("secret", SortedCanon(q)) : q \in {p, alt1, alt2}}
       \cup {Hmac("secret", ReplacerCanon(p))}

StripeSigs(p) ==
    LET alt1 == [p EXCEPT !.type = OtherType(@)]
    IN {NoSig, Hmac("other", RawBody(p)),
        Hmac("secret", RawBody(p)), Hmac("secret", RawBody(alt1))}

\* What the signature of a request is, whatever the server does with it.
IPNSigClass(p, sig) ==
    IF sig = NoSig THEN "absent"
    ELSE IF sig.key # "secret" THEN "forged"
    ELSE IF sig.over \in {SortedCanon(p), ReplacerCanon(p)} THEN "valid"
    ELSE "stale"

StripeSigClass(p, sig) ==
    IF sig = NoSig THEN "absent"
    ELSE IF sig.key # "secret" THEN "forged"
    ELSE IF sig.over = RawBody(p) THEN "valid"
    ELSE "stale"

\* err.message of the error stripe.webhooks.constructEvent throws: one
\* text when the stripe-signature header is missing, another when no
\* signature in it matches the payload.
constructEventMessage(p, sig) ==
    IF sig = NoSig
    THEN "No stripe-signature header value was provided."
    ELSE "No signatures found matching the expected signature for payload."

(***************************************************************************)
(* Handler slots: a request between its awaits.                            *)
(***************************************************************************)
\* route and event say which request it is, sig the class of its signature,
\* ref the order it names, target the id of the stored order it found and
\* quantity the quantity its 'add' request to the panel carries.
Idle == [pc |-> "idle", route |-> "none", event |-> "none", sig |-> "absent",
         ref |-> Null, target |-> Null, quantity |-> Null]

InFlight(ref) == {h \in Handlers : handler[h].pc = "calling" /\ handler[h].ref = ref}

\* The slot that takes the next request: the first idle one (slots are
\* interchangeable).
Free(h) ==
    /\ handler[h].pc = "idle"
    /\ \A g \in Handlers : g < h => handler[g].pc # "idle"

\* History of the latest step of a request: the order it names, the class
\* event it reports, the class
\* of its signature, whether the server checked the signature against the
\* secret and it matched, whether the step changed an order, called the
\* panel, sent a notification, whether the delivery repeats a completed
\* one, how the panel answered, and the HTTP status sent (0: none yet).
NoStep == [step |-> "none", ref |-> Null, event |-> "none",
           sig |-> "absent", verified |-> FALSE,
           changed |-> FALSE, called |-> FALSE, notified |-> FALSE,
           dup |-> FALSE, out |-> "none", res |-> 0]

(***************************************************************************)
(* v3: lib/orders.js, the in-memory store.                                 *)
(***************************************************************************)
createOrder(orderId, serviceId, link, quantity) ==
    [id |-> orderId, serviceId |-> serviceId, link |-> link,
     quantity |-> quantity, status |-> "pending", japOrderId |-> Null]

\* Object.assign(order, extra)
ObjectAssignLax(order, extra) ==
    [f \in DOMAIN order \cup DOMAIN extra |->
        IF f \in DOMAIN extra THEN extra[f]
        ELSE IF f = "quantity" THEN Null ELSE order[f]]
ObjectAssign(order, extra) ==
    [f \in DOMAIN order \cup DOMAIN extra |->
        IF f \in DOMAIN extra THEN extra[f] ELSE order[f]]

updateOrderStatus(ords, orderId, status, extra) ==
    IF orderId \in DOMAIN ords
    THEN [ords EXCEPT ![orderId] = ObjectAssign([@ EXCEPT !.status = status], extra)]
    ELSE ords

\* processOrder up to its await: what it throws, or "ok" when it goes on
\* to createJAPOrder.
processOrderCheck(ords, orderId) ==
    IF orderId \notin DOMAIN ords THEN "Order not found"
    ELSE IF ords[orderId].status # "paid" THEN "Order not paid"
    ELSE "ok"

\* lib/payments.js: TRUE iff the event is returned, FALSE iff it throws.
verifyStripeWebhook(p, sig) ==
    IF ~STRIPE_WEBHOOK_SECRET THEN TRUE
    ELSE sig = Hmac("secret", RawBody(p))

\* lib/nowpayments.js
verifyIPNSignature(p, sig) ==
    sig = Hmac(IF NOWPAYMENTS_IPN_SECRET THEN "secret" ELSE "", ReplacerCanon(p))

\* uuidv4(): an id that was never made before.
FreshOrderId == uuids + 1

v5state == <<ordersFile, clock>>
upstream == <<japCalls, japNextId, japIssued>>

\* A payment-confirmed delivery for an order that is already fulfilled and
\* has no request in flight.
IsDuplicate3(ref) ==
    /\ ref \in DOMAIN orders
    /\ orders[ref].status = "processing"
    /\ orders[ref].japOrderId # Null
    /\ InFlight(ref) = {}

\* POST /api/order and /api/order/crypto: createOrder, then the checkout
\* session is requested from the provider.
Checkout3(serviceId, link, quantity) ==
    /\ uuids < NumOrders
    /\ uuids' = uuids + 1
    /\ LET id == FreshOrderId
       IN orders' = [x \in DOMAIN orders \cup {id} |->
                        IF x = id THEN createOrder(id, serviceId, link, quantity)
                        ELSE orders[x]]
    /\ UNCHANGED <<env, catalog, stripe, v5state, handler, deliveries, upstream, last>>

\* The request is answered.  The history keeps the order's name only for
\* a step that had an effect or ends a call.
Answer(h, rec, code) ==
    /\ handler' = [handler EXCEPT ![h] = Idle]
    /\ last' = [rec EXCEPT !.res = code,
                           !.ref = IF rec.changed \/ rec.notified \/ rec.dup
                                      \/ rec.step # "receive"
                                   THEN @ ELSE Null]

\* updateOrderStatus(orderId, 'paid'); try { await processOrder(orderId) }
\* catch (e) { console.error(e) }: up to the await inside createJAPOrder.
MarkPaidAndProcess3(h, rec, route, event, ref) ==
    LET paid == updateOrderStatus(orders, ref, "paid", EmptyMap)
        chk == processOrderCheck(paid, ref)
        r == [rec EXCEPT !.changed = (paid # orders), !.dup = IsDuplicate3(ref)]
    IN /\ orders' = paid
       /\ IF chk = "ok"
          THEN /\ japCalls' = [japCalls EXCEPT ![ref] = @ + 1]
               /\ handler' = [handler EXCEPT ![h] =
                                [pc |-> "calling", route |-> route,
                                 event |-> event, sig |-> rec.sig,
                                 ref |-> ref, target |-> ref,
                                 quantity |-> paid[ref].quantity]]
               /\ last' = [r EXCEPT !.called = TRUE]
          ELSE /\ Answer(h, r, 200)
               /\ UNCHANGED japCalls

\* POST /api/webhooks/stripe (v3.0.1 and v3.0.2)
StripeWebhook3(h, p, sig) ==
    /\ Free(h)
    /\ deliveries < MaxDeliveries
    /\ deliveries' = deliveries + 1
    /\ LET rec == [NoStep EXCEPT !.step = "receive", !.ref = p.ref,
                                 !.event = p.type,
                                 !.sig = StripeSigClass(p, sig),
                                 !.verified = STRIPE_WEBHOOK_SECRET]
       IN IF ~verifyStripeWebhook(p, sig)
          THEN /\ Answer(h, [rec EXCEPT !.verified = FALSE,
                                    !.out = constructEventMessage(p, sig)],
                         400)
               /\ UNCHANGED <<orders, japCalls>>
          ELSE IF p.type = "checkout.session.completed" /\ p.ref # Null
          THEN MarkPaidAndProcess3(h, rec, "stripe", p.type, p.ref)
          ELSE /\ Answer(h, rec, 200)
               /\ UNCHANGED <<orders, japCalls>>
    /\ UNCHANGED <<env, uuids, catalog, stripe, v5state, japNextId, japIssued>>

\* The payment statuses of an IPN that mean the payment is complete.
PaidStatusesLax == {"finished", "confirmed", "partially_paid"}
PaidStatuses == {"finished", "confirmed"}

\* POST /api/webhooks/nowpayments (v3.0.1: part_005; v3.0.2: server.js)
NowpaymentsWebhook3(h, p, sig) ==
    /\ Free(h)
    /\ deliveries < MaxDeliveries
    /\ deliveries' = deliveries + 1
    /\ LET checked == version = "v3.0.1" /\ NOWPAYMENTS_IPN_SECRET /\ sig # NoSig
           rec == [NoStep EXCEPT !.step = "receive", !.ref = p.order_id,
                                 !.event = p.payment_status,
                                 !.sig = IPNSigClass(p, sig),
                                 !.verified = checked]
       IN IF checked /\ ~verifyIPNSignature(p, sig)
          THEN /\ Answer(h, [rec EXCEPT !.verified = FALSE,
                                    !.out = "Invalid signature"], 400)
               /\ UNCHANGED <<orders, japCalls>>
          ELSE IF p.payment_status \in PaidStatuses
          THEN MarkPaidAndProcess3(h, rec, "nowpayments", p.payment_status, p.order_id)
          ELSE IF version = "v3.0.1" /\ p.payment_status = "partially_paid"
          THEN LET upd == updateOrderStatus(orders, p.order_id, "partial", EmptyMap)
               IN /\ orders' = upd
                  /\ Answer(h, [rec EXCEPT !.changed = (upd # orders)], 200)
                  /\ UNCHANGED japCalls
          ELSE IF version = "v3.0.1" /\ p.payment_status \in {"failed", "expired"}
          THEN LET upd == updateOrderStatus(orders, p.order_id, "failed", EmptyMap)
               IN /\ orders' = upd
                  /\ Answer(h, [rec EXCEPT !.changed = (upd # orders)], 200)
                  /\ UNCHANGED japCalls
          ELSE /\ Answer(h, rec, 200)
               /\ UNCHANGED <<orders, japCalls>>
    /\ UNCHANGED <<env, uuids, catalog, stripe, v5state, japNextId, japIssued>>

\* How an 'add' request to the panel can end: an order id, an explicit
\* error, or no answer (network error, timeout).
JapOutcomes == {"ok", "rejected", "timeout"}

\* JapResponse3 with a catch block that records the failure on the order.
JapResponse3Marking(h, outcome) ==
    /\ handler[h].pc = "calling"
    /\ LET ref == handler[h].ref
           id == japNextId
       IN /\ japNextId' = IF outcome = "ok" THEN id + 1 ELSE id
          /\ japIssued' = IF outcome = "ok"
                          THEN [japIssued EXCEPT ![ref] = @ \cup {id}]
                          ELSE japIssued
          /\ orders' = IF outcome = "ok"
                       THEN updateOrderStatus(orders, ref, "processing",
                                              [japOrderId |-> id])
                       ELSE updateOrderStatus(orders, ref, "failed", EmptyMap)
          /\ handler' = [handler EXCEPT ![h] = Idle]
          /\ last' = [NoStep EXCEPT !.step = "response", !.ref = ref,
                                    !.changed = (orders' # orders),
                                    !.out = outcome, !.res = 200]
    /\ UNCHANGED <<env, uuids, catalog, stripe, v5state, deliveries, japCalls>>

\* createJAPOrder resolves or throws; processOrder records the id; the
\* handler answers { received: true }.
JapResponse3(h, outcome) ==
    /\ handler[h].pc = "calling"
    /\ LET ref == handler[h].ref
           id == japNextId
       IN /\ japNextId' = IF outcome = "ok" THEN id + 1 ELSE id
          /\ japIssued' = IF outcome = "ok"
                          THEN [japIssued EXCEPT ![ref] = @ \cup {id}]
                          ELSE japIssued
          /\ orders' = IF outcome = "ok"
                       THEN updateOrderStatus(orders, ref, "processing",
                                              [japOrderId |-> id])
                       ELSE orders
          /\ handler' = [handler EXCEPT ![h] = Idle]
          /\ last' = [NoStep EXCEPT !.step = "response", !.ref = ref,
                                    !.changed = (orders' # orders),
                                    !.out = outcome, !.res = 200]
    /\ UNCHANGED <<env, uuids, catalog, stripe, v5state, deliveries, japCalls>>

InitCommon ==
    /\ STRIPE_WEBHOOK_SECRET \in BOOLEAN
    /\ ADMIN_API_KEY \in (IF version = "v2" THEN BOOLEAN ELSE {FALSE})
    /\ NOWPAYMENTS_IPN_SECRET \in BOOLEAN
    /\ orders = EmptyMap
    /\ ordersFile = <<>>
    /\ clock = 1
    /\ handler = [h \in Handlers |-> Idle]
    /\ deliveries = 0
    /\ japCalls = [r \in Refs |-> 0]
    /\ japNextId = 1
    /\ japIssued = [r \in Refs |-> {}]
    /\ uuids = 0
    /\ sessions = EmptyMap
    /\ servicesCache = NullCache
    /\ cacheTimestamp = 0
    /\ now = Boot
    /\ japGen = 1
    /\ lastGood = NullCache
    /\ lastRefresh = 0
    /\ lastRead = NoRead
    /\ last = NoStep

InitV3 ==
    /\ version \in {"v3.0.1", "v3.0.2"}
    /\ JAP_API_KEY = TRUE
    /\ InitCommon

NextV3 ==
    \/ \E s \in ServiceIds, l \in Links, q \in CheckoutQuantities :
          Checkout3(s, l, q)
    \/ \E h \in Handlers, p \in StripePayloads : \E sig \in StripeSigs(p) :
          StripeWebhook3(h, p, sig)
    \/ \E h \in Handlers, p \in IPNPayloads : \E sig \in IPNSigs(p) :
          NowpaymentsWebhook3(h, p, sig)
    \/ \E h \in Handlers, o \in JapOutcomes : JapResponse3(h, o)

SpecV3 == InitV3 /\ [][NextV3]_vars

\* Handlers run to completion: a request awaiting the panel gets its
\* answer (or its network error) and the handler goes on.
SpecV3Fair ==
    SpecV3 /\ WF_vars(\E h \in Handlers, o \in JapOutcomes : JapResponse3(h, o))

\* The process crashes and is started again: the Map is empty, the
\* requests that were being served are gone.
Restart3 ==
    /\ orders # EmptyMap
    /\ orders' = EmptyMap
    /\ handler' = [h \in Handlers |-> Idle]
    /\ last' = [NoStep EXCEPT !.step = "restart"]
    /\ UNCHANGED <<env, uuids, catalog, stripe, v5state, deliveries, upstream>>

SpecV3Restart == InitV3 /\ [][NextV3 \/ Restart3]_vars

(***************************************************************************)
(* v5: the file-backed store (orders.json) and its handlers.               *)
(* Numbers and strings never compare equal under ===, so ids carry their   *)
(* kind: Num(n) is the number n, Str(k, n) the string k followed by n.     *)
(***************************************************************************)
Num(n) == <<"num", n>>
Str(k, n) == <<k, n>>
Undefined == <<"undefined", Null>>

Truthy(v) == v # Null

\* addOrder: { id: Date.now(), ...orderData } is put first in the list.
\* addOrder that starts from an empty list instead of the stored one.
addOrderFresh(file, orderData) ==
    <<[orderData EXCEPT !.id = Num(clock)]>>

addOrder(file, orderData) ==
    <<[orderData EXCEPT !.id = Num(clock)]>> \o file

\* findIndex / find: the first of the positions whose element satisfies
\* the test, Null if there is none.
FirstIndex(matching) ==
    IF matching = {} THEN Null
    ELSE CHOOSE i \in matching : \A j \in matching : i <= j

updateOrderStatus5(file, orderId, status, japOrderId) ==
    LET index == FirstIndex({i \in 1..Len(file) :
                                file[i].id = orderId \/ file[i].orderId = orderId})
    IN IF index # Null
       THEN [file EXCEPT ![index] =
                [@ EXCEPT !.status = status,
                          !.japOrderId = IF Truthy(japOrderId) THEN japOrderId ELSE @]]
       ELSE file

\* getOrderByStripeSession: position of the order, Null if there is none.
getOrderByStripeSession(file, sessionId) ==
    FirstIndex({i \in 1..Len(file) : file[i].stripeSessionId = sessionId})

\* The n-th order created is at position Len - n + 1: orders are added in
\* front and never removed.
Created(file, i) == Len(file) - i + 1

NewOrder5(orderId, sessionId, japServiceId, link, quantity, method) ==
    [id |-> Undefined, orderId |-> orderId, stripeSessionId |-> sessionId,
     japServiceId |-> japServiceId, link |-> link, quantity |-> quantity,
     status |-> "pending", japOrderId |-> Null, paymentMethod |-> method]

v3state == <<orders>>

\* Date.now() moves on.
Tick ==
    /\ clock < MaxClock
    /\ clock' = clock + 1
    /\ UNCHANGED <<env, uuids, catalog, stripe, v3state, ordersFile, handler, deliveries,
                   upstream, last>>

\* POST /api/order: the Stripe session is created, then the pending order
\* is saved with the session's id.
OrderStripe5(japServiceId, link, quantity) ==
    /\ Len(ordersFile) < NumOrders
    /\ Truthy(japServiceId)
    /\ ordersFile' = addOrder(ordersFile,
                        NewOrder5(Str("GF-", clock), Len(ordersFile) + 1,
                                  japServiceId, link, quantity, "stripe"))
    /\ UNCHANGED <<env, uuids, catalog, stripe, v3state, clock, handler, deliveries,
                   upstream, last>>

\* POST /api/order/crypto: orderId is made from Date.now(), the invoice is
\* created, the pending order is saved.
OrderCrypto5(japServiceId, link, quantity) ==
    /\ Len(ordersFile) < NumOrders
    /\ ordersFile' = addOrder(ordersFile,
                        NewOrder5(Str("gf_", clock), Null,
                                  japServiceId, link, quantity, "crypto"))
    /\ UNCHANGED <<env, uuids, catalog, stripe, v3state, clock, handler, deliveries,
                   upstream, last>>

\* placeJapOrder up to its await: without JAP_API_KEY it returns a failure
\* at once, otherwise the 'add' request leaves.
StartCall5(h, route, event, ref, target, key, quantity, rec) ==
    /\ JAP_API_KEY
    /\ japCalls' = [japCalls EXCEPT ![key] = @ + 1]
    /\ handler' = [handler EXCEPT ![h] =
                      [pc |-> "calling", route |-> route, event |-> event,
                       sig |-> rec.sig, ref |-> ref, target |-> target,
                       quantity |-> quantity]]
    /\ last' = [rec EXCEPT !.called = TRUE]
    /\ UNCHANGED ordersFile

\* What a webhook handler does with the result of placeJapOrder: the order
\* at position index (if any) is updated, the notification is sent, the
\* request is answered.
Settle5(h, index, success, japOrderId, rec) ==
    LET upd == IF index # Null
               THEN updateOrderStatus5(ordersFile, ordersFile[index].id,
                                       IF success THEN "processing" ELSE "pending",
                                       japOrderId)
               ELSE ordersFile
    IN /\ ordersFile' = upd
       /\ handler' = [handler EXCEPT ![h] = Idle]
       /\ last' = [rec EXCEPT !.changed = (upd # ordersFile),
                              !.notified = TRUE, !.res = 200]

\* POST /api/webhooks/stripe
StripeWebhook5(h, p, sig) ==
    /\ Free(h)
    /\ deliveries < MaxDeliveries
    /\ deliveries' = deliveries + 1
    /\ LET rec == [NoStep EXCEPT !.step = "receive", !.ref = p.ref,
                                 !.event = p.type,
                                 !.sig = StripeSigClass(p, sig),
                                 !.verified = STRIPE_WEBHOOK_SECRET]
           index == getOrderByStripeSession(ordersFile, p.ref)
       IN IF STRIPE_WEBHOOK_SECRET /\ sig # Hmac("secret", RawBody(p))
          THEN /\ Answer(h, [rec EXCEPT !.verified = FALSE,
                                    !.out = constructEventMessage(p, sig)],
                         400)
               /\ UNCHANGED <<ordersFile, japCalls>>
          ELSE IF p.type = "checkout.session.completed"
          THEN \/ StartCall5(h, "stripe", p.type, p.ref, Undefined, p.ref,
                               p.quantity, rec)
               \/ /\ ~JAP_API_KEY
                  /\ Settle5(h, index, FALSE, Null, [rec EXCEPT !.out = "unconfigured"])
                  /\ UNCHANGED japCalls
          ELSE /\ Answer(h, rec, 200)
               /\ UNCHANGED <<ordersFile, japCalls>>
    /\ UNCHANGED <<env, uuids, catalog, stripe, v3state, clock, japNextId, japIssued>>

\* POST /api/webhooks/nowpayments
NowpaymentsWebhook5(h, p, sig) ==
    /\ Free(h)
    /\ deliveries < MaxDeliveries
    /\ deliveries' = deliveries + 1
    /\ LET checked == NOWPAYMENTS_IPN_SECRET /\ sig # NoSig
           rec == [NoStep EXCEPT !.step = "receive", !.ref = p.order_id,
                                 !.event = p.payment_status,
                                 !.sig = IPNSigClass(p, sig),
                                 !.verified = checked]
           index == FirstIndex({i \in 1..Len(ordersFile) :
                                   ordersFile[i].orderId = Str("gf_", p.order_id)})
       IN IF checked /\ sig # Hmac("secret", SortedCanon(p))
          THEN /\ Answer(h, [rec EXCEPT !.verified = FALSE,
                                    !.out = "Invalid signature"], 400)
               /\ UNCHANGED <<ordersFile, japCalls>>
          ELSE IF p.payment_status \in {"finished", "confirmed"}
          THEN IF index # Null /\ Truthy(ordersFile[index].japServiceId)
               THEN \/ StartCall5(h, "nowpayments", p.payment_status, p.order_id,
                                  ordersFile[index].id,
                                  Created(ordersFile, index),
                                  ordersFile[index].quantity, rec)
                    \/ /\ ~JAP_API_KEY
                       /\ Settle5(h, index, FALSE, Null,
                                  [rec EXCEPT !.out = "unconfigured"])
                       /\ UNCHANGED japCalls
               ELSE /\ Answer(h, [rec EXCEPT !.notified = TRUE], 200)
                    /\ UNCHANGED <<ordersFile, japCalls>>
          ELSE /\ Answer(h, rec, 200)
               /\ UNCHANGED <<ordersFile, japCalls>>
    /\ UNCHANGED <<env, uuids, catalog, stripe, v3state, clock, japNextId, japIssued>>

\* POST /api/admin/fulfill/:id, for a caller that passed adminAuth.
AdminFulfill5(h, id) ==
    /\ Free(h)
    /\ deliveries < MaxDeliveries
    /\ deliveries' = deliveries + 1
    /\ LET rec == [NoStep EXCEPT !.step = "fulfill", !.ref = id]
           index == FirstIndex({i \in 1..Len(ordersFile) :
                                   ordersFile[i].id = Num(id)})
       IN IF index = Null
          THEN /\ Answer(h, rec, 404)
               /\ UNCHANGED <<ordersFile, japCalls>>
          ELSE IF ~Truthy(ordersFile[index].japServiceId)
          THEN /\ Answer(h, rec, 400)
               /\ UNCHANGED <<ordersFile, japCalls>>
          ELSE \/ StartCall5(h, "fulfill", "fulfill", id, ordersFile[index].id,
                             Created(ordersFile, index),
                             ordersFile[index].quantity, rec)
               \/ /\ ~JAP_API_KEY
                  /\ Answer(h, [rec EXCEPT !.out = "unconfigured"], 500)
                  /\ UNCHANGED <<ordersFile, japCalls>>
    /\ UNCHANGED <<env, uuids, catalog, stripe, v3state, clock, japNextId, japIssued>>

\* The order a request in flight is for: its position in the file, Null if
\* the file holds no such order.
OrderOf5(file, route, ref, target) ==
    IF route = "stripe"
    THEN getOrderByStripeSession(file, ref)
    ELSE FirstIndex({i \in 1..Len(file) : file[i].id = target})

\* placeJapOrder returns; the handler goes on to the end.
JapResponse5(h, outcome) ==
    /\ handler[h].pc = "calling"
    /\ LET r == handler[h]
           id == japNextId
           success == outcome = "ok"
           index == OrderOf5(ordersFile, r.route, r.ref, r.target)
           key == IF index = Null THEN Null ELSE Created(ordersFile, index)
           rec == [NoStep EXCEPT !.step = "response", !.ref = r.ref,
                                 !.out = outcome]
       IN /\ japNextId' = IF success THEN id + 1 ELSE id
          /\ japIssued' = IF success
                          THEN [japIssued EXCEPT ![key] = @ \cup {id}]
                          ELSE japIssued
          /\ IF r.route = "fulfill"
             THEN LET upd == IF success
                             THEN updateOrderStatus5(ordersFile, r.target,
                                                     "processing", id)
                             ELSE ordersFile
                  IN /\ ordersFile' = upd
                     /\ Answer(h, [rec EXCEPT !.changed = (upd # ordersFile)],
                               IF success THEN 200 ELSE 500)
             ELSE Settle5(h, index, success, IF success THEN id ELSE Null, rec)
    /\ UNCHANGED <<env, uuids, catalog, stripe, v3state, clock, deliveries, japCalls>>

InitV5 ==
    /\ version = "v5"
    /\ JAP_API_KEY \in BOOLEAN
    /\ InitCommon

NextV5 ==
    \/ Tick
    \/ \E s \in ServiceIds, l \in Links, q \in Quantities : OrderStripe5(s, l, q)
    \/ \E s \in ServiceIds \cup {Null}, l \in Links, q \in Quantities :
          OrderCrypto5(s, l, q)
    \/ \E h \in Handlers, p \in StripePayloads : \E sig \in StripeSigs(p) :
          StripeWebhook5(h, p, sig)
    \/ \E h \in Handlers, p \in IPNPayloads : \E sig \in IPNSigs(p) :
          NowpaymentsWebhook5(h, p, sig)
    \/ \E h \in Handlers, id \in 1..MaxClock : AdminFulfill5(h, id)
    \/ \E h \in Handlers, o \in JapOutcomes : JapResponse5(h, o)

SpecV5 == InitV5 /\ [][NextV5]_vars

(***************************************************************************)
(* v4: the file-backed store of getfame-backend-v5/server.js.  No order is *)
(* saved at checkout; the Stripe webhook saves one when the payment is     *)
(* confirmed.                                                              *)
(***************************************************************************)
\* updateOrderStatus of v4: the order is found by its id only.
updateOrderStatus4(file, orderId, status, japOrderId) ==
    LET index == FirstIndex({i \in 1..Len(file) : file[i].id = orderId})
    IN IF index # Null
       THEN [file EXCEPT ![index] =
                [@ EXCEPT !.status = status,
                          !.japOrderId = IF Truthy(japOrderId) THEN japOrderId ELSE @]]
       ELSE file

\* POST /api/webhooks/stripe (v4) up to its first await after addOrder:
\* the notification when JAP_API_KEY is missing, the 'add' request
\* otherwise.
StripeWebhook4(h, p, sig) ==
    /\ Free(h)
    /\ deliveries < MaxDeliveries
    /\ deliveries' = deliveries + 1
    /\ LET rec == [NoStep EXCEPT !.step = "receive", !.ref = p.ref,
                                 !.event = p.type,
                                 !.sig = StripeSigClass(p, sig),
                                 !.verified = STRIPE_WEBHOOK_SECRET]
       IN IF ~STRIPE_WEBHOOK_SECRET
          THEN /\ Answer(h, rec, 500)
               /\ UNCHANGED <<ordersFile, japCalls>>
          ELSE IF sig # Hmac("secret", RawBody(p))
          THEN /\ Answer(h, [rec EXCEPT !.verified = FALSE,
                                    !.out = constructEventMessage(p, sig)],
                         400)
               /\ UNCHANGED <<ordersFile, japCalls>>
          ELSE IF p.type # "checkout.session.completed"
          THEN /\ Answer(h, rec, 200)
               /\ UNCHANGED <<ordersFile, japCalls>>
          ELSE /\ ordersFile' =
                     addOrder(ordersFile,
                              [id |-> Undefined, orderId |-> Undefined,
                               stripeSessionId |-> p.ref,
                               japServiceId |-> CHOOSE s \in ServiceIds : TRUE,
                               link |-> CHOOSE l \in Links : TRUE,
                               quantity |-> p.quantity, status |-> "processing",
                               japOrderId |-> Null, paymentMethod |-> "Card"])
               /\ japCalls' = IF JAP_API_KEY
                              THEN [japCalls EXCEPT ![p.ref] = @ + 1]
                              ELSE japCalls
               /\ handler' = [handler EXCEPT ![h] =
                                [pc |-> IF JAP_API_KEY THEN "calling"
                                        ELSE "notifying",
                                 route |-> "stripe", event |-> p.type,
                                 sig |-> rec.sig, ref |-> p.ref,
                                 target |-> clock,
                                 quantity |-> IF JAP_API_KEY THEN p.quantity
                                              ELSE Null]]
               /\ last' = [rec EXCEPT !.changed = TRUE, !.called = JAP_API_KEY]
    /\ UNCHANGED <<env, uuids, catalog, stripe, v3state, clock, japNextId, japIssued>>

\* createJAPOrder returns (null without JAP_API_KEY); the saved order is
\* updated by its id, the notification is sent, the request is answered.
JapResponse4(h, outcome) ==
    /\ handler[h].pc \in {"calling", "notifying"}
    /\ handler[h].pc = "notifying" => outcome = "rejected"
    /\ LET r == handler[h]
           id == japNextId
           success == outcome = "ok"
           upd == IF success
                  THEN updateOrderStatus4(ordersFile, Num(r.target), "completed", id)
                  ELSE updateOrderStatus4(ordersFile, Num(r.target), "pending", Null)
       IN /\ japNextId' = IF success THEN id + 1 ELSE id
          /\ japIssued' = IF success
                          THEN [japIssued EXCEPT ![r.ref] = @ \cup {id}]
                          ELSE japIssued
          /\ ordersFile' = upd
          /\ handler' = [handler EXCEPT ![h] = Idle]
          /\ last' = [NoStep EXCEPT !.step = "response", !.ref = r.ref,
                                    !.sig = r.sig, !.verified = TRUE,
                                    !.changed = (upd # ordersFile),
                                    !.notified = TRUE,
                                    !.out = outcome, !.res = 200]
    /\ UNCHANGED <<env, uuids, catalog, stripe, v3state, clock, deliveries, japCalls>>

InitV4 ==
    /\ version = "v4"
    /\ JAP_API_KEY \in BOOLEAN
    /\ InitCommon

NextV4 ==
    \/ Tick
    \/ \E h \in Handlers, p \in StripePayloads : \E sig \in StripeSigs(p) :
          StripeWebhook4(h, p, sig)
    \/ \E h \in Handlers, o \in JapOutcomes : JapResponse4(h, o)

SpecV4 == InitV4 /\ [][NextV4]_vars

(***************************************************************************)
(* v2: PaymentHandler and OrdersManager.  The checkout only creates a      *)
(* Stripe session; the order is placed on the panel when Stripe reports    *)
(* the session completed.                                                  *)
(***************************************************************************)
ServiceMin == 100
ServiceMax == 10000

ServiceIds2 == ServiceIds \cup {1}
Quantities2 == CheckoutQuantities
\* A link, as the patterns of validateLink read it: scheme://host/path
Links2 == {[scheme |-> "https", host |-> "instagram.com", path |-> "u"],
           [scheme |-> "https", host |-> "tiktok.com", path |-> "@u"]}

\* The panel's 'services' answer: its first list has the curated service,
\* the later ones have dropped it.
PanelLists(serviceId) == serviceId \in ServiceIds /\ japGen = 1

\* servicesManager.getServiceById: the curated service, or null (written
\* as a service without id).  The list is read through getServices; the
\* requests of this pipeline are taken to come more than CACHE_DURATION
\* apart, so each read fetches the panel's list.
getServiceById(serviceId) ==
    IF serviceId \in ServiceIds /\ PanelLists(serviceId)
    THEN [id |-> serviceId, platform |-> "instagram",
          min |-> ServiceMin, max |-> ServiceMax]
    ELSE [id |-> Null, platform |-> "", min |-> 0, max |-> 0]

\* (www\.)?(<host>|<host>) of the platform's pattern
PlatformHosts(platform) ==
    LET bare == IF platform = "instagram" THEN {"instagram.com"}
                ELSE IF platform = "tiktok" THEN {"tiktok.com", "vm.tiktok.com"}
                ELSE {}
    IN bare \cup {"www." \o b : b \in bare}

\* OrdersManager.validateLink: pattern.test(link)
validateLink(link, platform) ==
    IF PlatformHosts(platform) = {}
    THEN TRUE
    ELSE /\ link.scheme \in {"http", "https"}
         /\ link.host \in PlatformHosts(platform)
         /\ link.path # ""

\* The checks of createCheckoutSession before the session is made:
\* the error thrown, or "ok".
CheckoutCheck2(serviceId, quantity) ==
    LET service == getServiceById(serviceId)
    IN IF service.id = Null THEN "Service not found"
       ELSE IF quantity < service.min \/ quantity > service.max
       THEN "Quantity out of range"
       ELSE "ok"

\* The checks of OrdersManager.createOrder before the panel is called.
createOrderCheck2(serviceId, link, quantity) ==
    LET service == getServiceById(serviceId)
    IN IF service.id = Null THEN "Service not found"
       ELSE IF quantity < service.min \/ quantity > service.max
       THEN "Quantity out of range"
       ELSE IF ~validateLink(link, service.platform)
       THEN "Invalid link format for this platform"
       ELSE "ok"

\* POST /api/order: createCheckoutSession; any error is answered 400.
CreateCheckoutSession2(serviceId, link, quantity) ==
    /\ Cardinality(DOMAIN sessions) < NumOrders
    /\ LET id == Cardinality(DOMAIN sessions) + 1
           chk == CheckoutCheck2(serviceId, quantity)
       IN /\ sessions' = IF chk = "ok"
                         THEN [x \in DOMAIN sessions \cup {id} |->
                                 IF x = id
                                 THEN [serviceId |-> serviceId, link |-> link,
                                       quantity |-> quantity]
                                 ELSE sessions[x]]
                         ELSE sessions
          /\ last' = [NoStep EXCEPT !.step = "checkout",
                                    !.ref = IF chk = "ok" THEN id ELSE Null,
                                    !.changed = (chk = "ok"),
                                    !.res = IF chk = "ok" THEN 200 ELSE 400]
    /\ UNCHANGED <<env, uuids, catalog, v3state, v5state, handler, deliveries, upstream>>

\* stripe.webhooks.constructEvent(payload, signature, secret): TRUE iff the
\* event is returned, FALSE iff it throws.
constructEvent(p, sig) ==
    /\ STRIPE_WEBHOOK_SECRET
    /\ sig = Hmac("secret", RawBody(p))

\* POST /api/webhook/stripe: handleWebhook, handleSuccessfulPayment and
\* createOrder up to the await of japApi.createOrder.
StripeWebhook2(h, p, sig) ==
    /\ Free(h)
    /\ deliveries < MaxDeliveries
    /\ deliveries' = deliveries + 1
    /\ LET rec == [NoStep EXCEPT !.step = "receive", !.ref = p.ref,
                                 !.event = p.type,
                                 !.sig = StripeSigClass(p, sig),
                                 !.verified = constructEvent(p, sig)]
       IN IF ~constructEvent(p, sig)
          THEN /\ Answer(h, rec, 400)
               /\ UNCHANGED japCalls
          ELSE IF p.type # "checkout.session.completed"
          THEN /\ Answer(h, rec, 200)
               /\ UNCHANGED japCalls
          ELSE IF p.ref \notin DOMAIN sessions
          THEN /\ Answer(h, [rec EXCEPT !.out = "Service not found"], 400)
               /\ UNCHANGED japCalls
          ELSE LET m == sessions[p.ref]
                   chk == createOrderCheck2(m.serviceId, m.link, m.quantity)
               IN IF chk # "ok"
                  THEN /\ handler' = [handler EXCEPT ![h] = Idle]
                       /\ last' = [rec EXCEPT !.out = chk, !.res = 400]
                       /\ UNCHANGED japCalls
                  ELSE /\ japCalls' = [japCalls EXCEPT ![p.ref] = @ + 1]
                       /\ handler' = [handler EXCEPT ![h] =
                                        [pc |-> "calling", route |-> "stripe",
                                         event |-> p.type, sig |-> rec.sig,
                                         ref |-> p.ref, target |-> Null,
                                         quantity |-> m.quantity]]
                       /\ last' = [rec EXCEPT !.called = TRUE]
    /\ UNCHANGED <<env, uuids, catalog, stripe, v3state, v5state, japNextId, japIssued>>

\* The apiKey of a request body and the value of process.env.ADMIN_API_KEY:
\* a field that is absent and a variable that is unset both read undefined.
NoKey == "undefined"
ApiKeys == {NoKey, "admin-key", "other-key"}
AdminKey == IF ADMIN_API_KEY THEN "admin-key" ELSE NoKey
ApiKeyClass(apiKey) ==
    IF apiKey = NoKey THEN "absent"
    ELSE IF apiKey = AdminKey THEN "equal"
    ELSE "different"

\* POST /api/order/direct: the key check, then createOrder up to the await
\* of japApi.createOrder.
DirectOrder2(h, serviceId, link, quantity, apiKey) ==
    /\ Free(h)
    /\ deliveries < MaxDeliveries
    /\ deliveries' = deliveries + 1
    /\ LET rec == [NoStep EXCEPT !.step = "direct",
                                 !.sig = ApiKeyClass(apiKey)]
           chk == createOrderCheck2(serviceId, link, quantity)
       IN IF apiKey # AdminKey
          THEN /\ handler' = [handler EXCEPT ![h] = Idle]
               /\ last' = [rec EXCEPT !.out = "Unauthorized", !.res = 401]
               /\ UNCHANGED japCalls
          ELSE IF chk # "ok"
          THEN /\ handler' = [handler EXCEPT ![h] = Idle]
               /\ last' = [rec EXCEPT !.verified = TRUE, !.out = chk,
                                      !.res = 400]
               /\ UNCHANGED japCalls
          ELSE /\ japCalls' = [japCalls EXCEPT ![Null] = @ + 1]
               /\ handler' = [handler EXCEPT ![h] =
                                [pc |-> "calling", route |-> "direct",
                                 event |-> Null, sig |-> rec.sig,
                                 ref |-> Null,
                                 target |-> [serviceId |-> serviceId,
                                             link |-> link],
                                 quantity |-> quantity]]
               /\ last' = [rec EXCEPT !.verified = TRUE, !.called = TRUE]
    /\ UNCHANGED <<env, uuids, catalog, stripe, v3state, v5state, japNextId, japIssued>>

\* generateInternalId(): 'GF' + time + random
InternalId(n) == Str("GF", n)

\* japApi.createOrder resolves or throws; createOrder stores the order under
\* both of its ids; handleSuccessfulPayment rethrows and the route answers.
JapResponse2(h, outcome) ==
    /\ handler[h].pc = "calling"
    /\ LET ref == handler[h].ref
           id == japNextId
           m == IF handler[h].route = "direct"
                THEN [serviceId |-> handler[h].target.serviceId,
                      link |-> handler[h].target.link,
                      quantity |-> handler[h].quantity]
                ELSE sessions[ref]
           order == [id |-> id, internalId |-> InternalId(id),
                     serviceId |-> m.serviceId, link |-> m.link,
                     quantity |-> m.quantity, status |-> "pending"]
           keys == {Str("jap", id), InternalId(id)}
       IN /\ japNextId' = IF outcome = "ok" THEN id + 1 ELSE id
          /\ japIssued' = IF outcome = "ok"
                          THEN [japIssued EXCEPT ![ref] = @ \cup {id}]
                          ELSE japIssued
          /\ orders' = IF outcome = "ok"
                       THEN [k \in DOMAIN orders \cup keys |->
                               IF k \in keys THEN order ELSE orders[k]]
                       ELSE orders
          /\ handler' = [handler EXCEPT ![h] = Idle]
          /\ last' = [NoStep EXCEPT !.step = "response", !.ref = ref,
                                    !.sig = handler[h].sig,
                                    !.verified = TRUE,
                                    !.changed = (outcome = "ok"),
                                    !.out = outcome,
                                    !.res = IF outcome = "ok" THEN 200 ELSE 400]
    /\ UNCHANGED <<env, uuids, catalog, stripe, v5state, deliveries, japCalls>>

\* getAllOrders: Array.from(orders.values()).filter(o => o.id); the sort only
\* permutes the array.  The result is given as the number of elements the
\* array holds for each order: one per Map entry whose value has a truthy id.
getAllOrders(map) ==
    LET kept == {k \in DOMAIN map : Truthy(map[k].id)}
    IN [o \in {map[k] : k \in kept} |->
           Cardinality({k \in kept : map[k] = o})]

\* The panel changes its service list.
PanelChanges ==
    /\ japGen < MaxGen
    /\ japGen' = japGen + 1
    /\ UNCHANGED <<env, uuids, stripe, v3state, v5state, handler, deliveries, upstream,
                   last, servicesCache, cacheTimestamp, now, lastGood,
                   lastRefresh, lastRead>>

InitV2 ==
    /\ version = "v2"
    /\ JAP_API_KEY = TRUE
    /\ InitCommon

NextV2 ==
    \/ \E s \in ServiceIds2, l \in Links2, q \in Quantities2 :
          CreateCheckoutSession2(s, l, q)
    \/ \E h \in Handlers, p \in StripePayloads : \E sig \in StripeSigs(p) :
          StripeWebhook2(h, p, sig)
    \/ \E h \in Handlers, s \in ServiceIds2, l \in Links2, q \in Quantities2,
          k \in ApiKeys : DirectOrder2(h, s, l, q, k)
    \/ \E h \in Handlers, o \in JapOutcomes : JapResponse2(h, o)
    \/ PanelChanges

SpecV2 == InitV2 /\ [][NextV2]_vars

(***************************************************************************)
(* The service catalog: getServices of lib/services.js in its three        *)
(* forms: the ServicesManager of v1/v2 ("v2"), lib/services.js of v3       *)
(* ("v3.lib") and its second copy ("v3.lib.alt").                          *)
(***************************************************************************)
MaxMinutes == 6       \* minutes of Date.now() that pass in one run

CatalogVersions == {"v2", "v3.lib", "v3.lib.alt"}

List(gen, size) == [kind |-> "list", gen |-> gen, size |-> size]
Thrown == [kind |-> "error", gen |-> 0, size |-> 0]

\* getCuratedFallback(): CURATED_SERVICES with fixed rate and bounds
getCuratedFallback == [kind |-> "fallback", gen |-> 0, size |-> 1]

\* How a 'services' request to the panel can end: a list with curated
\* services in it, a list with none, or a failure (network error, error
\* object).
FetchOutcomes == {"ok", "other", "fail"}

\* What the fetch gives to getServices: japApi.getServices throws on a
\* failure, fetchJAPServices catches it and returns [].
fetchJAPServices(outcome) ==
    IF outcome = "ok" THEN List(japGen, 1)
    ELSE IF outcome = "other" THEN List(japGen, 0)
    ELSE IF version = "v2" THEN Thrown
    ELSE List(0, 0)

\* Date.now() - cacheTimestamp < CACHE_DURATION
CacheFreshLax(age) == age <= CACHE_DURATION
CacheFresh(age) == age < CACHE_DURATION

\* The cache check at the head of getServices; [] is truthy.
CacheHit(forceRefresh) ==
    /\ ~(version = "v2" /\ forceRefresh)
    /\ servicesCache # NullCache
    /\ CacheFresh(now - cacheTimestamp)

\* History of a read at its start: whether a fetch has succeeded before
\* and how long ago the last one did.
ReadStart(forceRefresh) ==
    [NoRead EXCEPT !.force = forceRefresh,
                   !.had = (lastGood # NullCache),
                   !.age = now - lastRefresh,
                   !.good = lastGood]

\* Time passes.
Advance ==
    /\ now < Boot + MaxMinutes * Minute
    /\ now' = now + Minute
    /\ UNCHANGED <<env, uuids, stripe, v3state, v5state, handler, deliveries, upstream,
                   last, servicesCache, cacheTimestamp, japGen, lastGood,
                   lastRefresh, lastRead>>

\* getServices(forceRefresh) up to its return from the cache or to the
\* await of the fetch.
GetServices(h, forceRefresh) ==
    /\ Free(h)
    /\ IF CacheHit(forceRefresh)
       THEN /\ lastRead' = [ReadStart(forceRefresh) EXCEPT
                               !.step = "hit", !.result = servicesCache]
            /\ UNCHANGED handler
       ELSE /\ lastRead' = [ReadStart(forceRefresh) EXCEPT !.step = "miss"]
            /\ handler' = [handler EXCEPT ![h] =
                             [Idle EXCEPT !.pc = "fetching",
                                          !.route = "services"]]
    /\ UNCHANGED <<env, uuids, stripe, v3state, v5state, deliveries, upstream, last,
                   servicesCache, cacheTimestamp, now, japGen, lastGood,
                   lastRefresh>>

\* What getServices does with what the fetch gave: the value it returns
\* and whether it stores it in the cache.
AfterFetch(got) ==
    IF version = "v2"
    THEN IF got = Thrown
         THEN [result |-> IF servicesCache # NullCache THEN servicesCache
                          ELSE Thrown,
               store |-> FALSE]
         ELSE [result |-> got, store |-> TRUE]
    ELSE IF version = "v3.lib"
    THEN [result |-> got, store |-> TRUE]
    ELSE IF got.size = 0
         THEN [result |-> getCuratedFallback, store |-> FALSE]
         ELSE [result |-> got, store |-> TRUE]

\* The fetch ends and getServices runs to its return.
FetchDone(h, outcome) ==
    /\ handler[h].pc = "fetching"
    /\ LET got == fetchJAPServices(outcome)
           r == AfterFetch(got)
       IN /\ servicesCache' = IF r.store THEN r.result ELSE servicesCache
          /\ cacheTimestamp' = IF r.store THEN now ELSE cacheTimestamp
          /\ lastGood' = IF outcome = "fail" THEN lastGood ELSE got
          /\ lastRefresh' = IF outcome = "fail" THEN lastRefresh ELSE now
          /\ lastRead' = [NoRead EXCEPT !.step = "done",
                                        !.had = (lastGood # NullCache),
                                        !.age = now - lastRefresh,
                                        !.out = outcome,
                                        !.good = lastGood,
                                        !.result = r.result]
    /\ handler' = [handler EXCEPT ![h] = Idle]
    /\ UNCHANGED <<env, uuids, stripe, v3state, v5state, deliveries, upstream, last,
                   now, japGen>>

InitCatalog ==
    /\ version \in CatalogVersions
    /\ JAP_API_KEY = TRUE
    /\ InitCommon

NextCatalog ==
    \/ Advance
    \/ PanelChanges
    \/ \E h \in Handlers, f \in BOOLEAN : GetServices(h, f)
    \/ \E h \in Handlers, o \in FetchOutcomes : FetchDone(h, o)

SpecCatalog == InitCatalog /\ [][NextCatalog]_vars

(***************************************************************************)
(* The two IPN verifiers side by side: lib/nowpayments.js and the inline   *)
(* check of the v4/v5 NOWPayments route, both with the secret set.         *)
(***************************************************************************)
\* The inline check: the HMAC of JSON.stringify of the body rebuilt with
\* its top-level keys sorted is compared with the header.
verifyIPNInline(p, sig) ==
    sig = Hmac("secret", SortedCanon(p))

\* One IPN is given to both verifiers; the history keeps the request and
\* the two verdicts.
VerifyIPN(p, sig) ==
    /\ last' = [step |-> "verify", payload |-> p, header |-> sig,
                sig |-> IPNSigClass(p, sig),
                lib |-> verifyIPNSignature(p, sig),
                inline |-> verifyIPNInline(p, sig)]
    /\ UNCHANGED <<env, uuids, catalog, stripe, v3state, v5state, handler,
                   deliveries, upstream>>

InitIPN ==
    /\ version = "ipn"
    /\ JAP_API_KEY = TRUE
    /\ NOWPAYMENTS_IPN_SECRET = TRUE
    /\ InitCommon

NextIPN == \E p \in IPNPayloads : \E sig \in IPNSigs(p) : VerifyIPN(p, sig)

SpecIPN == InitIPN /\ [][NextIPN]_vars

(***************************************************************************)
(* Claims on the IPN verifiers.                                            *)
(***************************************************************************)
\* C30: the two IPN verifiers accept the same requests: for every payload
\* and every signature header, verifyIPNSignature accepts exactly when the
\* inline check accepts.
C30_VerifiersAgree ==
    last.step = "verify" => (last.lib <=> last.inline)

(***************************************************************************)
(* Claims on the service catalog.                                          *)
(***************************************************************************)
\* C18: when the fetch from the panel fails and an earlier fetch has
\* succeeded, the read returns what the last successful fetch gave: not an
\* error, not the static list, not an empty list.
C18_StaleServedOnFailure ==
    (/\ lastRead.step = "done"
     /\ lastRead.out = "fail"
     /\ lastRead.good # NullCache)
    => lastRead.result = lastRead.good

\* C19: when the fetch from the panel fails and no fetch has ever
\* succeeded, the read returns the static fallback list instead of failing
\* its caller.
C19_FallbackWithoutSnapshot ==
    (/\ lastRead.step = "done"
     /\ lastRead.out = "fail"
     /\ lastRead.good = NullCache)
    => lastRead.result = getCuratedFallback

\* C20: in the ServicesManager (v1, v2) a read that does not force a
\* refresh and comes less than 5 minutes after the last successful fetch is
\* answered from the cache with the snapshot of that fetch and without a
\* request to the panel, and every read that comes 5 minutes or more after
\* it goes to the panel.
C20_FiveMinuteTTL ==
    (version = "v2" /\ lastRead.step \in {"hit", "miss"}) =>
        /\ (lastRead.had /\ ~lastRead.force /\ lastRead.age < CACHE_DURATION)
              => (lastRead.step = "hit" /\ lastRead.result = lastRead.good)
        /\ lastRead.age >= CACHE_DURATION => lastRead.step = "miss"

\* A read exactly 5 minutes after the last successful fetch went to the
\* panel.
C20_Witness ==
    /\ version = "v2"
    /\ lastRead.step = "miss"
    /\ lastRead.had
    /\ ~lastRead.force
    /\ lastRead.age = CACHE_DURATION

\* C34: in the v3 catalog library a failed fetch from the panel never
\* modifies the cache: when getServices ends after a fetch that failed,
\* servicesCache and cacheTimestamp are what they were before.
C34_FailedFetchKeepsCache ==
    [][(/\ version \in {"v3.lib", "v3.lib.alt"}
        /\ \E h \in Handlers : /\ handler[h].pc = "fetching"
                                /\ handler'[h].pc # "fetching"
        /\ lastRead'.step = "done"
        /\ lastRead'.out = "fail")
       => /\ servicesCache' = servicesCache
          /\ cacheTimestamp' = cacheTimestamp]_vars

(***************************************************************************)
(* Claims on the v2 pipeline.                                              *)
(***************************************************************************)
\* C14: a webhook handler answers with an error status only when the
\* authenticity check fails: every answer to an event that carries a valid
\* signature under the configured secret is the success acknowledgement,
\* also when the panel call or the order creation fails or the event names
\* nothing the server knows.
C14_ErrorOnlyWhenUnauthentic ==
    (/\ last.step \in {"receive", "response"}
     /\ last.sig = "valid"
     /\ STRIPE_WEBHOOK_SECRET
     /\ last.res # 0)
    => last.res = 200

\* C17: a checkout whose link does not match the link format of the
\* service's platform is rejected before a payment session is created:
\* every session made at the provider carries a link that validateLink
\* accepts for the platform of its service.
C17_LinkValidatedAtCheckout ==
    \A id \in DOMAIN sessions :
        validateLink(sessions[id].link,
                     getServiceById(sessions[id].serviceId).platform)

\* C21: the catalog cannot block a payment in flight: an authenticated
\* payment-confirmed event for a session made at checkout is never refused
\* because the service is no longer listed or the quantity no longer
\* allowed when the event arrives.
C21_CatalogNeverBlocksPayment ==
    (/\ last.step = "receive"
     /\ last.sig = "valid"
     /\ STRIPE_WEBHOOK_SECRET
     /\ last.ref \in DOMAIN sessions)
    => last.out \notin {"Service not found", "Quantity out of range"}

\* C31: getAllOrders returns every stored order exactly once: the filter
\* removes the second Map entry of each order, so the returned array holds
\* one element per order created.
C31_EachOrderListedOnce ==
    \A o \in DOMAIN getAllOrders(orders) : getAllOrders(orders)[o] = 1

\* C37: the direct-order endpoint reaches ordersManager.createOrder only
\* for a caller that presents the configured admin key: only when
\* ADMIN_API_KEY is set and the apiKey of the request equals it.
C37_DirectOrderNeedsAdminKey ==
    (last.step = "direct" /\ last.verified) =>
        (ADMIN_API_KEY /\ last.sig = "equal")

(***************************************************************************)
(* Claims on the v4 pipeline.                                              *)
(***************************************************************************)
\* C23: a provider reference resolves to exactly one stored order: no two
\* order records carry the same Stripe session id, also after the same
\* webhook has been delivered more than once.
C23_ProviderRefResolvesToOneOrder ==
    \A i, j \in 1..Len(ordersFile) :
        i # j => ordersFile[i].stripeSessionId # ordersFile[j].stripeSessionId

\* C26: every order record is created in state pending with no upstream
\* order id: whenever a record is added to the store, the new record is
\* pending and its japOrderId is null.
C26_CreatedPending ==
    [][Len(ordersFile') > Len(ordersFile) =>
          /\ ordersFile'[1].status = "pending"
          /\ ordersFile'[1].japOrderId = Null]_vars

(***************************************************************************)
(* Claims on the v3 pipeline.                                              *)
(***************************************************************************)
\* C1: while N deliveries of the same valid payment-confirmation webhook
\* are being handled concurrently for one order (the requests in flight
\* for it are deliveries of one webhook, each with the signature the
\* provider made for it, and the panel has had no other request for it),
\* the panel has received exactly one 'add' request for that order.
C1_ConcurrentDeliveriesOneCall ==
    \A o \in OrderIds :
        (/\ InFlight(o) # {}
         /\ \A g, h \in InFlight(o) :
               /\ handler[h].sig = "valid"
               /\ handler[g].route = handler[h].route
               /\ handler[g].event = handler[h].event
         /\ japCalls[o] = Cardinality(InFlight(o)))
        => japCalls[o] = 1

\* C2: a valid payment-confirmed webhook that arrives for an order already
\* fulfilled (upstream id recorded, nothing in flight) makes no call to the
\* panel and leaves the order fulfilled.
C2_LateDuplicateMakesNoCall ==
    (last.step = "receive" /\ last.sig = "valid" /\ last.dup) =>
        /\ ~last.called
        /\ orders[last.ref].status = "processing"

\* C4: at most one invocation of processOrder is past the status check and
\* calling the panel for an order at any time.
C4_AtomicClaim ==
    \A o \in OrderIds : Cardinality(InFlight(o)) <= 1

\* C6: an order never moves back in the lifecycle (not yet paid: 0, paid:
\* 1, dispatched: 2), never leaves the fulfilled state and never reaches it
\* without passing through paid.
C6_StateMonotonic ==
    [][\A o \in DOMAIN orders :
          LET Rank3(status) == IF status = "processing" THEN 2
                               ELSE IF status = "paid" THEN 1 ELSE 0
              a == orders[o].status
              b == orders'[o].status
          IN /\ Rank3(b) >= Rank3(a)
             /\ (a = "processing" => b = "processing")
             /\ (Rank3(b) = 2 => Rank3(a) >= 1)]_vars

\* C7: updateOrderStatus(orderId, 'paid') applied to an order that is paid
\* or in a later state leaves the store as it is.
C7_MarkPaidIdempotent ==
    \A o \in DOMAIN orders :
        orders[o].status \in {"paid", "processing"} =>
            updateOrderStatus(orders, o, "paid", EmptyMap) = orders

\* C8: with both webhook secrets configured, a request whose payload was
\* altered after the provider signed it is answered with a client error,
\* changes no order and makes no call to the panel.
C8_BadSignatureRejected ==
    (/\ STRIPE_WEBHOOK_SECRET /\ NOWPAYMENTS_IPN_SECRET
     /\ last.step = "receive" /\ last.sig = "stale") =>
        /\ last.res = 400
        /\ ~last.changed
        /\ ~last.called

\* C10: after a call to the panel that failed (explicit rejection, or
\* timeout) the order is marked as a failed dispatch: it is no longer in a
\* state from which the next delivery dispatches it again.
C10_FailureMarksDispatchFailed ==
    (last.step = "response" /\ last.out \in {"rejected", "timeout"}) =>
        /\ last.ref \in DOMAIN orders
        /\ orders[last.ref].status \notin {"pending", "paid"}

\* C11: the step that follows a call to the panel that ended without an
\* answer (timeout) is never another 'add' request for the same order: the
\* v3 servers have no status query, so any such request is a blind one.
C11_NoBlindRedispatch ==
    [][(last.step = "response" /\ last.out = "timeout") =>
          japCalls'[last.ref] = japCalls[last.ref]]_vars

\* C12: an order for which an authenticated payment confirmation is being
\* handled eventually has a recorded dispatch outcome: fulfilled with an
\* upstream id, or marked as a failed dispatch.
C12_ConfirmedOrderReachesOutcome ==
    \A o \in OrderIds :
        (\E h \in InFlight(o) :
            /\ handler[h].sig = "valid"
            /\ \/ handler[h].route = "stripe" /\ STRIPE_WEBHOOK_SECRET
               \/ /\ handler[h].route = "nowpayments"
                  /\ version = "v3.0.1" /\ NOWPAYMENTS_IPN_SECRET)
        ~> (/\ o \in DOMAIN orders
            /\ \/ orders[o].status = "processing" /\ orders[o].japOrderId # Null
               \/ orders[o].status = "dispatch_failed")

\* C15: when the panel call for a paid order fails for good, a notification
\* for manual intervention is sent before the handler finishes: the step
\* that ends a failed call has notified.
C15_FailureIsNotified ==
    (/\ last.step = "response"
     /\ last.out \in {"rejected", "timeout"}
     /\ last.ref \in DOMAIN orders)
    => last.notified

\* C16: a checkout whose quantity is below the service's minimum or above
\* its maximum is rejected when the checkout is made: no order record is
\* stored for it.
C16_QuantityWithinBounds ==
    \A o \in DOMAIN orders :
        /\ orders[o].quantity >= ServiceMin
        /\ orders[o].quantity <= ServiceMax

\* C24: order records are durable: every order made at checkout is still in
\* the store, with its state, after a crash and restart, so that the
\* payment webhook that arrives later finds it.
C24_OrdersDurable ==
    \A o \in 1..uuids : o \in DOMAIN orders

\* C25: an authenticated event that does not report a successful payment
\* (a failed payment intent, an IPN with status partially_paid, failed or
\* waiting) is answered with the success acknowledgement and makes no call
\* to the panel.
C25_OtherEventsAcknowledged ==
    (/\ last.step = "receive"
     /\ last.verified
     /\ last.sig = "valid"
     /\ last.event \notin {"checkout.session.completed", "finished", "confirmed"})
    => (last.res = 200 /\ ~last.called)

\* A verified IPN with status partially_paid marked its order and was
\* acknowledged.
C25_Witness ==
    /\ last.step = "receive"
    /\ last.verified
    /\ last.sig = "valid"
    /\ last.event = "partially_paid"
    /\ last.changed
    /\ last.res = 200

\* C27: the quantity, the service and the link of an order never change
\* after its creation, and the quantity an 'add' request carries to the
\* panel is the quantity the order was created with.
C27_QuantityImmutable ==
    [][/\ \A o \in DOMAIN orders :
            /\ o \in DOMAIN orders'
            /\ orders'[o].quantity = orders[o].quantity
            /\ orders'[o].serviceId = orders[o].serviceId
            /\ orders'[o].link = orders[o].link
       /\ \A h \in Handlers :
            (handler'[h].pc = "calling" /\ handler[h].pc # "calling")
            => /\ handler'[h].ref \in DOMAIN orders
               /\ handler'[h].quantity = orders[handler'[h].ref].quantity]_vars

\* An order that went from pending through paid to processing, with the id
\* of the panel on it.
C27_Witness ==
    \E o \in DOMAIN orders :
        /\ orders[o].status = "processing"
        /\ orders[o].japOrderId # Null
        /\ orders[o].quantity \in CheckoutQuantities
        /\ last.step = "response"

\* C28: the response to a webhook that fails the authenticity check does
\* not depend on why it failed: two rejected deliveries of the same event
\* get the same status and the same body.
C28_RejectionsIndistinguishable ==
    [][(/\ last.step = "receive" /\ last.res = 400 /\ ~last.verified
        /\ last'.step = "receive" /\ last'.res = 400 /\ ~last'.verified
        /\ last'.event = last.event)
       => last'.out = last.out]_vars

\* C32: no provisioning call is made for an order unless a payment-success
\* event for that order (checkout.session.completed, or an IPN with status
\* finished or confirmed) is being handled and the order exists with status
\* 'paid'; when processOrder throws (order missing or not paid) no upstream
\* call is made and the order store is unchanged.
C32_CallOnlyAfterPaymentSuccess ==
    [][/\ \A r \in Refs :
            japCalls'[r] > japCalls[r]
            => /\ last'.step = "receive"
               /\ last'.ref = r
               /\ last'.event \in {"checkout.session.completed",
                                   "finished", "confirmed"}
               /\ r \in DOMAIN orders
               /\ orders'[r].status = "paid"
       /\ (deliveries' > deliveries /\ ~last'.called)
            => /\ japCalls' = japCalls
               /\ \/ orders' = orders
                  \/ last'.event \notin {"checkout.session.completed",
                                         "finished", "confirmed"}]_vars

\* A call was made for one order, and a payment-success IPN then reached
\* processOrder, which threw.
C32_Witness ==
    /\ \E r \in Refs : japCalls[r] > 0
    /\ last.step = "receive"
    /\ last.event = "finished"
    /\ last.res = 200
    /\ ~last.called

C3_JapOrderIdSetOnce ==
    [][\A i \in 1..Len(ordersFile) :
          LET j == i + Len(ordersFile') - Len(ordersFile)
          IN ordersFile[i].japOrderId # Null =>
                ordersFile'[j].japOrderId = ordersFile[i].japOrderId]_vars

\* C5: while a request to the panel is in flight for a stored order, that
\* order has left the pending and paid states.
C5_CallOnlyAfterClaim ==
    \A h \in Handlers :
        LET index == OrderOf5(ordersFile, handler[h].route,
                              handler[h].ref, handler[h].target)
        IN (handler[h].pc = "calling" /\ index # Null) =>
               ordersFile[index].status \notin {"pending", "paid"}

\* C13: a verified payment-confirmed Stripe event whose session belongs to
\* no stored order causes no request to the panel.
C13_UnknownOrderNoCall ==
    \A h \in Handlers :
        (/\ handler[h].pc = "calling"
         /\ handler[h].route = "stripe"
         /\ handler[h].event = "checkout.session.completed"
         /\ handler[h].sig = "valid"
         /\ STRIPE_WEBHOOK_SECRET)
        => getOrderByStripeSession(ordersFile, handler[h].ref) # Null

\* C22: order identifiers are unique: two orders in the store, also two
\* made by requests between which the clock did not advance, have
\* different ids.
C22_OrderIdsUnique ==
    \A i, j \in 1..Len(ordersFile) :
        i # j => ordersFile[i].id # ordersFile[j].id

\* C29: an order carries an upstream order id only as the result of a
\* successful panel call made for that same order: a japOrderId in the
\* store is one of the ids the panel returned for the order that holds it.
C29_JapOrderIdFromOwnCall ==
    \A i \in 1..Len(ordersFile) :
        ordersFile[i].japOrderId # Null =>
            ordersFile[i].japOrderId \in japIssued[Created(ordersFile, i)]

\* C9: a webhook request changes an order, sends a notification or calls
\* the panel only if its signature was checked against the provider's
\* secret and matched.
C9_VerifiedBeforeProcessing ==
    (last.step = "receive" /\ (last.changed \/ last.called \/ last.notified)) =>
        last.verified

\* C35: the file-backed store loses no update under concurrent handlers: in
\* every step of every interleaving each stored order stays in the file
\* with its identity, a step rewrites at most one stored record (no handler
\* writes back a list it loaded before an await), and when a handler applies
\* updateOrderStatus after its panel call the record stored under that id
\* carries the new status and panel order id.
C35_NoLostUpdate ==
    [][LET d == Len(ordersFile') - Len(ordersFile)
           old == 1..Len(ordersFile)
           rewritten == {i \in old : ordersFile'[i + d] # ordersFile[i]}
       IN /\ d \in {0, 1}
          /\ \A i \in old :
                ordersFile'[i + d] =
                    [ordersFile[i] EXCEPT
                        !.status = ordersFile'[i + d].status,
                        !.japOrderId = ordersFile'[i + d].japOrderId]
          /\ Cardinality(rewritten) <= 1
          /\ d = 1 => rewritten = {}
          /\ \A h \in Handlers :
                (handler[h].pc = "calling" /\ handler'[h].pc # "calling") =>
                   LET r == handler[h]
                       index == OrderOf5(ordersFile, r.route, r.ref, r.target)
                       ok == last'.out = "ok"
                       id == IF index = Null THEN Null ELSE ordersFile[index].id
                       first == FirstIndex({i \in old :
                                              \/ ordersFile'[i].id = id
                                              \/ ordersFile'[i].orderId = id})
                   IN (index # Null /\ (r.route # "fulfill" \/ ok)) =>
                         /\ rewritten \subseteq {first}
                         /\ ordersFile'[first].status =
                               IF ok THEN "processing" ELSE "pending"
                         /\ ok => ordersFile'[first].japOrderId = japNextId]_vars

\* A handler's update was stored while another handler was waiting for its
\* own panel call, with two orders in the file.
C35_Witness ==
    /\ Len(ordersFile) = 2
    /\ last.step = "response"
    /\ last.changed
    /\ \E h \in Handlers : handler[h].pc = "calling"

\* C36: when the v5 Stripe webhook handler finishes a
\* checkout.session.completed event for a session whose order is stored,
\* that order has status 'processing' and the panel order id returned by
\* placeJapOrder if the call succeeded, and otherwise status 'pending' and
\* the japOrderId it had; an order that has a japOrderId is never put back
\* to 'pending'.  Stated for files whose order ids are all different, where
\* updateOrderStatus(order.id) reaches the order of the session.
C36_SettledByCallResult ==
    [][\A h \in Handlers :
          (/\ handler[h].pc = "calling"
           /\ handler[h].route = "stripe"
           /\ handler'[h].pc # "calling"
           /\ getOrderByStripeSession(ordersFile, handler[h].ref) # Null
           /\ \A i, j \in 1..Len(ordersFile) :
                 i # j => ordersFile[i].id # ordersFile[j].id)
          => LET index == getOrderByStripeSession(ordersFile, handler[h].ref)
                 before == ordersFile[index]
                 after == ordersFile'[index]
             IN /\ IF last'.out = "ok"
                   THEN /\ after.status = "processing"
                        /\ after.japOrderId = japNextId
                   ELSE /\ after.status = "pending"
                        /\ after.japOrderId = before.japOrderId
                /\ before.japOrderId # Null => after.status # "pending"]_vars

====
